---- MODULE Spec2Model ----
(***************************************************************************)
(* SecureBank: the transaction store (transactions/models.py), the limit   *)
(* evaluator (TransactionLimit.check_daily_limit) and the account ledger   *)
(* (accounts/models.py), with the admin screens that can write them.       *)
(*                                                                         *)
(* Money is counted in hundredths (DecimalField, decimal_places=2), so the *)
(* Decimal additions and comparisons of the source are exact integer ones. *)
(* Time is counted in seconds since the epoch.                             *)
(***************************************************************************)
EXTENDS Integers, FiniteSets, Sequences, TLC

(* ------------------------------ bounds ------------------------------- *)
\* rows the transaction table may hold
MaxTxns == 2
\* rows the account table may hold
MaxAccounts == 1
\* midnights the clock may pass in the limit specification
MaxDays == 1
\* transfers between two accounts in the ledger specification
MaxTransfers == 1
\* rows of the audit log table
MaxLogs == 1
\* seconds the clock may advance in the authentication specification
MaxTicks == 1

(* ------------------------- program constants ------------------------- *)
\* created_at of an instance that was never saved (auto_now_add fills it
\* only inside super().save())
NoTime == -1
\* the clock when the model starts
StartTime == 1
\* int(created_at.timestamp() * 1000)
MsPerSecond == 1000

Prefix == "TXN"

\* source_account and destination_account are nullable
NoAccount == 0

STATUS_CHOICES ==
    {"PENDING", "PROCESSING", "COMPLETED", "FAILED", "CANCELLED", "REVERSED"}

DefaultStatus == "PENDING"

\* outcomes of random.choices(ascii_uppercase + digits, k=8)
RandomStrs == {"AAAAAAAA", "7ZZZZZZZ"}

VARIABLES
    transactions,   \* the table transactions_transaction: pk -> row
    accounts,       \* the table accounts_bank_account: pk -> row
    now,            \* the server clock, in seconds
    outcome,        \* what the last call did (observation only)
    requests,       \* transfer requests in flight: process -> local state
    attempts,       \* debit attempts in flight: process -> local state
    logs,           \* the table transactions_transaction_log: pk -> row
    users,          \* the table accounts_user: pk -> row
    crypto_transactions,  \* the table crypto_transaction: pk -> row
    service_payments      \* the tables of services payments: pk -> row

vars == <<transactions, accounts, now, outcome, requests, attempts, logs, users,
         crypto_transactions, service_payments>>

(* --------------------------- Transaction ----------------------------- *)

Pks == DOMAIN transactions

\* uuid.uuid4 as primary key: a key no row has
NewPk == CHOOSE pk \in 1..(Cardinality(Pks) + 1) : pk \notin Pks

\* Transaction.objects.filter(reference=reference).exists()
ReferenceExists(reference) ==
    \E pk \in Pks : transactions[pk].reference = reference

\* str(int(self.created_at.timestamp() * 1000))
TimestampPart(created_at) == ToString(created_at * MsPerSecond)

\* the else branch of the timestamp expression, str(int(uuid4().int)[:10]),
\* subscripts an int: it raises TypeError whenever created_at is unset
GenerateReferenceRaises(inst) == inst.created_at = NoTime

\* f"{prefix}{timestamp}{random_str}" for one draw of random_str
Candidate(inst, random_str) ==
    Prefix \o TimestampPart(inst.created_at) \o random_str

\* a loop that returns its first candidate without asking the table
GenerateReferenceUnchecked(inst) ==
    {Candidate(inst, r) : r \in RandomStrs}

\* the values generate_reference can return: the loop draws again while the
\* candidate exists in the table
GenerateReference(inst) ==
    {Candidate(inst, r) : r \in {s \in RandomStrs : ~ReferenceExists(Candidate(inst, s))}}

\* a save that keeps what the caller assigned
TotalAmountSupplied(inst) == inst.total_amount

\* self.total_amount = self.amount + self.fee + self.tax
TotalAmount(inst) == inst.amount + inst.fee + inst.tax

\* a column declared without unique=True
UniqueViolationNever(pk, reference) == FALSE

\* reference = CharField(unique=True): the insert or update is refused when
\* another row holds the reference
UniqueViolation(pk, reference) ==
    \E other \in Pks \ {pk} : transactions[other].reference = reference

\* Transaction.is_completed, is_pending, is_failed
IsCompleted(row) == row.status = "COMPLETED"
IsPending(row) == row.status = "PENDING"
IsFailed(row) == row.status = "FAILED"

\* a can_be_cancelled() that forgets to exclude completed transactions
CanBeCancelledLate(row) == row.status \in {"PENDING", "PROCESSING", "COMPLETED"}

\* Transaction.can_be_cancelled()
CanBeCancelled(row) == row.status \in {"PENDING", "PROCESSING"}

\* Transaction.can_be_reversed()
CanBeReversed(row) == row.status = "COMPLETED"

\* the row super().save() writes: every field of the instance, created_at
\* set to the clock on insert (auto_now_add)
RowOf(obj) ==
    [reference        |-> obj.reference,
     transaction_type |-> obj.transaction_type,
     source_account   |-> obj.source_account,
     destination_account |-> obj.destination_account,
     amount           |-> obj.amount,
     fee              |-> obj.fee,
     tax              |-> obj.tax,
     total_amount     |-> obj.total_amount,
     status           |-> obj.status,
     requires_otp     |-> obj.requires_otp,
     otp_verified     |-> obj.otp_verified,
     created_at       |-> IF obj.pk \in Pks THEN obj.created_at ELSE now]

Idle ==
    [op             |-> "none",
     pk             |-> 0,
     adding         |-> FALSE,
     had_reference  |-> FALSE,
     had_created_at |-> FALSE,
     supplied_total |-> 0,
     result         |-> "none"]

Observe(inst, result) ==
    [op             |-> "save",
     pk             |-> inst.pk,
     adding         |-> inst.pk \notin Pks,
     had_reference  |-> inst.reference # "",
     had_created_at |-> inst.created_at # NoTime,
     supplied_total |-> inst.total_amount,
     result         |-> result]

\* a save() without `if not self.reference`: it generates a reference on
\* every call
SaveRegenerating(inst) ==
    IF GenerateReferenceRaises(inst)
    THEN /\ outcome' = Observe(inst, "TypeError")
         /\ UNCHANGED transactions
    ELSE \E reference \in GenerateReference(inst) :
           LET obj == [inst EXCEPT !.reference = reference,
                                   !.total_amount = TotalAmount(inst)]
           IN IF UniqueViolation(inst.pk, reference)
              THEN /\ outcome' = Observe(inst, "IntegrityError")
                   /\ UNCHANGED transactions
              ELSE /\ transactions' =
                          [pk \in Pks \cup {inst.pk} |->
                              IF pk = inst.pk THEN RowOf(obj) ELSE transactions[pk]]
                   /\ outcome' = Observe(inst, "saved")

\* Transaction.save()
Save(inst) ==
    IF inst.reference = "" /\ GenerateReferenceRaises(inst)
    THEN /\ outcome' = Observe(inst, "TypeError")
         /\ UNCHANGED transactions
    ELSE \E reference \in
             (IF inst.reference = "" THEN GenerateReference(inst)
                                     ELSE {inst.reference}) :
           LET obj == [inst EXCEPT !.reference = reference,
                                   !.total_amount = TotalAmount(inst)]
           IN IF UniqueViolation(inst.pk, reference)
              THEN /\ outcome' = Observe(inst, "IntegrityError")
                   /\ UNCHANGED transactions
              ELSE /\ transactions' =
                          [pk \in Pks \cup {inst.pk} |->
                              IF pk = inst.pk THEN RowOf(obj) ELSE transactions[pk]]
                   /\ outcome' = Observe(inst, "saved")

(* ------------------------------ callers ------------------------------ *)

Amounts == {100000}
Fees == {0, 5000}
Taxes == {0, 2000}
CallerTotals == {107000, 1}
CallerReferences == {"", "TXN1000AAAAAAAA"}
CallerTimes == {NoTime, StartTime, StartTime + 1}

\* a caller builds Transaction(...) and saves it
CreateTransaction ==
    /\ Cardinality(Pks) < MaxTxns
    /\ \E reference \in CallerReferences, created_at \in CallerTimes,
          amount \in Amounts, fee \in Fees, tax \in Taxes,
          total_amount \in CallerTotals :
         Save([pk               |-> NewPk,
               reference        |-> reference,
               created_at       |-> created_at,
               transaction_type |-> "TRANSFER",
               source_account   |-> 1,
               destination_account |-> NoAccount,
               amount           |-> amount,
               fee              |-> fee,
               tax              |-> tax,
               total_amount     |-> total_amount,
               status           |-> DefaultStatus,
               requires_otp     |-> FALSE,
               otp_verified     |-> FALSE])
    /\ UNCHANGED <<accounts, now, requests, attempts, logs, users,
                 crypto_transactions, service_payments>>

\* a caller loads a row, assigns fields and saves it
UpdateTransaction ==
    /\ \E pk \in Pks, reference \in CallerReferences,
          fee \in Fees, tax \in Taxes, total_amount \in CallerTotals,
          keep \in BOOLEAN :
         LET row == transactions[pk]
         IN Save([pk               |-> pk,
                  reference        |-> IF keep THEN row.reference ELSE reference,
                  created_at       |-> row.created_at,
                  transaction_type |-> row.transaction_type,
                  source_account   |-> row.source_account,
                  destination_account |-> row.destination_account,
                  amount           |-> row.amount,
                  fee              |-> fee,
                  tax              |-> tax,
                  total_amount     |-> total_amount,
                  status           |-> row.status,
                  requires_otp     |-> row.requires_otp,
                  otp_verified     |-> row.otp_verified])
    /\ UNCHANGED <<accounts, now, requests, attempts, logs, users,
                 crypto_transactions, service_payments>>

Init ==
    /\ transactions = <<>>
    /\ accounts = <<>>
    /\ now = StartTime
    /\ outcome = Idle
    /\ requests = <<>>
    /\ attempts = <<>>
    /\ logs = <<>>
    /\ users = <<>>
    /\ crypto_transactions = <<>>
    /\ service_payments = <<>>

Next == CreateTransaction \/ UpdateTransaction

Spec == Init /\ [][Next]_vars

(* --------------------------- BankAccount ----------------------------- *)

ACCOUNT_STATUS_CHOICES == {"ACTIVE", "FROZEN", "CLOSED", "SUSPENDED"}

\* single_transaction_limit default, Decimal('100000.00')
DefaultSingleTransactionLimit == 10000000

Users == {1, 2}

AccountPks == DOMAIN accounts

NewAccountPk == Cardinality(AccountPks) + 1

\* BankAccount.is_active
IsActive(account) == account.status = "ACTIVE"

\* BankAccount.can_withdraw(amount)
CanWithdraw(account, amount) ==
    /\ IsActive(account)
    /\ amount <= account.available_balance
    /\ amount <= account.single_transaction_limit

\* BankAccount(user=...).save(): the balance fields take their defaults
OpenAccount ==
    /\ Cardinality(AccountPks) < MaxAccounts
    /\ \E user \in Users :
         accounts' =
           [pk \in AccountPks \cup {NewAccountPk} |->
              IF pk \in AccountPks THEN accounts[pk]
              ELSE [user                     |-> user,
                    balance                  |-> 0,
                    available_balance        |-> 0,
                    frozen_balance           |-> 0,
                    status                   |-> "ACTIVE",
                    single_transaction_limit |-> DefaultSingleTransactionLimit]]
    /\ UNCHANGED <<transactions, now, outcome, requests, attempts, logs, users,
                 crypto_transactions, service_payments>>

AdminBalances == {0, 10000}
AdminFrozen == {0, 4000}
AdminLimits == {5000, DefaultSingleTransactionLimit}

\* BankAccountAdmin change form: the fieldsets Balances, Limits and Status are
\* all editable and BankAccount.save() writes what the form holds
AdminChangeAccount ==
    /\ \E pk \in AccountPks, balance \in AdminBalances,
          available_balance \in AdminBalances, frozen_balance \in AdminFrozen,
          status \in ACCOUNT_STATUS_CHOICES, limit \in AdminLimits :
         accounts' = [accounts EXCEPT
                        ![pk].balance = balance,
                        ![pk].available_balance = available_balance,
                        ![pk].frozen_balance = frozen_balance,
                        ![pk].status = status,
                        ![pk].single_transaction_limit = limit]
    /\ UNCHANGED <<transactions, now, outcome, requests, attempts, logs, users,
                 crypto_transactions, service_payments>>

\* BankAccountSerializer update: balance, available_balance and
\* frozen_balance are read-only, status and the limits are writable
SerializerUpdateAccount ==
    /\ \E pk \in AccountPks, status \in ACCOUNT_STATUS_CHOICES,
          limit \in AdminLimits :
         accounts' = [accounts EXCEPT
                        ![pk].status = status,
                        ![pk].single_transaction_limit = limit]
    /\ UNCHANGED <<transactions, now, outcome, requests, attempts, logs, users,
                 crypto_transactions, service_payments>>

Debitors == {1, 2}
DebitAmounts == {6000, 12000}

\* a debit attempt that puts the amount on hold before it asks, and leaves
\* the hold in place when the answer is no
DebitAttemptHolding ==
    /\ \E p \in Debitors \ DOMAIN attempts, pk \in AccountPks,
          amount \in DebitAmounts :
         /\ attempts' =
              [q \in DOMAIN attempts \cup {p} |->
                 IF q # p THEN attempts[q]
                 ELSE [account   |-> pk,
                       amount    |-> amount,
                       active    |-> IsActive(accounts[pk]),
                       available |-> accounts[pk].available_balance,
                       in_limit  |-> amount <= accounts[pk].single_transaction_limit,
                       admitted  |-> CanWithdraw(accounts[pk], amount)]]
         /\ accounts' = [accounts EXCEPT
                           ![pk].available_balance = @ - amount,
                           ![pk].frozen_balance = @ + amount]
    /\ UNCHANGED <<transactions, now, outcome, requests, logs, users,
                 crypto_transactions, service_payments>>

\* a debit attempt: the caller asks account.can_withdraw(amount); the source
\* holds no statement that moves funds after the answer
DebitAttempt ==
    /\ \E p \in Debitors \ DOMAIN attempts, pk \in AccountPks,
          amount \in DebitAmounts :
         attempts' =
           [q \in DOMAIN attempts \cup {p} |->
              IF q # p THEN attempts[q]
              ELSE [account   |-> pk,
                    amount    |-> amount,
                    active    |-> IsActive(accounts[pk]),
                    available |-> accounts[pk].available_balance,
                    in_limit  |-> amount <= accounts[pk].single_transaction_limit,
                    admitted  |-> CanWithdraw(accounts[pk], amount)]]
    /\ UNCHANGED <<transactions, accounts, now, outcome, requests, logs, users,
                 crypto_transactions, service_payments>>

NextAcct ==
    OpenAccount \/ AdminChangeAccount \/ SerializerUpdateAccount \/ DebitAttempt

SpecAcct == Init /\ [][NextAcct]_vars

(* ------------------------- TransactionLimit -------------------------- *)

\* created_at__date and timezone.now().date(): the calendar day of a time
SecondsPerDay == 86400
DateOf(t) == t \div SecondsPerDay

\* the field defaults of TransactionLimit, in hundredths
DailyTransferLimit == 10000000
DailyWithdrawalLimit == 5000000
DailyCryptoLimit == 20000000
SingleTransferLimit == 5000000
SingleWithdrawalLimit == 2000000
SingleCryptoLimit == 10000000
MonthlyTransferLimit == 200000000
MonthlyWithdrawalLimit == 100000000

\* the TransactionLimit row of a user (OneToOneField), with the defaults
TransactionLimitOf(user) ==
    [user                     |-> user,
     daily_transfer_limit     |-> DailyTransferLimit,
     daily_withdrawal_limit   |-> DailyWithdrawalLimit,
     daily_crypto_limit       |-> DailyCryptoLimit,
     single_transfer_limit    |-> SingleTransferLimit,
     single_withdrawal_limit  |-> SingleWithdrawalLimit,
     single_crypto_limit      |-> SingleCryptoLimit,
     monthly_transfer_limit   |-> MonthlyTransferLimit,
     monthly_withdrawal_limit |-> MonthlyWithdrawalLimit]

\* a filter that forgets status="COMPLETED"
FilteredAnyStatus(user, types, today) ==
    {pk \in Pks :
        /\ transactions[pk].source_account # NoAccount
        /\ accounts[transactions[pk].source_account].user = user
        /\ transactions[pk].transaction_type \in types
        /\ DateOf(transactions[pk].created_at) = today}

\* Transaction.objects.filter(source_account__user=self.user,
\*     transaction_type__in=types, status="COMPLETED", created_at__date=today)
Filtered(user, types, today) ==
    {pk \in Pks :
        /\ transactions[pk].source_account # NoAccount
        /\ accounts[transactions[pk].source_account].user = user
        /\ transactions[pk].transaction_type \in types
        /\ transactions[pk].status = "COMPLETED"
        /\ DateOf(transactions[pk].created_at) = today}

\* .aggregate(total=Sum("amount"))["total"] or Decimal("0.00")
RECURSIVE SumAmount(_)
SumAmount(pks) ==
    IF pks = {} THEN 0
    ELSE LET pk == CHOOSE x \in pks : TRUE
         IN transactions[pk].amount + SumAmount(pks \ {pk})

\* a check that holds every type outside the three groups to the transfer
\* ceiling
CheckDailyLimitEveryType(limit, transaction_type, amount, today) ==
    IF transaction_type = "WITHDRAWAL"
    THEN SumAmount(Filtered(limit.user, {"WITHDRAWAL"}, today)) + amount
             <= limit.daily_withdrawal_limit
    ELSE IF transaction_type \in {"CRYPTO_BUY", "CRYPTO_SELL"}
    THEN SumAmount(Filtered(limit.user, {"CRYPTO_BUY", "CRYPTO_SELL"}, today)) + amount
             <= limit.daily_crypto_limit
    ELSE SumAmount(Filtered(limit.user, {"TRANSFER", "PAYMENT"}, today)) + amount
             <= limit.daily_transfer_limit

\* TransactionLimit.check_daily_limit(transaction_type, amount), with
\* today = timezone.now().date()
CheckDailyLimit(limit, transaction_type, amount, today) ==
    IF transaction_type \in {"TRANSFER", "PAYMENT"}
    THEN SumAmount(Filtered(limit.user, {"TRANSFER", "PAYMENT"}, today)) + amount
             <= limit.daily_transfer_limit
    ELSE IF transaction_type = "WITHDRAWAL"
    THEN SumAmount(Filtered(limit.user, {"WITHDRAWAL"}, today)) + amount
             <= limit.daily_withdrawal_limit
    ELSE IF transaction_type \in {"CRYPTO_BUY", "CRYPTO_SELL"}
    THEN SumAmount(Filtered(limit.user, {"CRYPTO_BUY", "CRYPTO_SELL"}, today)) + amount
             <= limit.daily_crypto_limit
    ELSE TRUE

\* the rows the limit specification records: one counted kind and its
\* variations in type, owner, status
HistoryKinds ==
    {<<"TRANSFER", 1, "COMPLETED">>, <<"PAYMENT", 1, "COMPLETED">>,
     <<"WITHDRAWAL", 1, "COMPLETED">>, <<"CRYPTO_SELL", 1, "COMPLETED">>,
     <<"DEPOSIT", 1, "COMPLETED">>, <<"TRANSFER", 1, "PENDING">>,
     <<"TRANSFER", 2, "COMPLETED">>, <<"TRANSFER", NoAccount, "COMPLETED">>}

\* a caller saves a transaction of 40000.00 with a fee of 50.00 and a
\* reference of its own
RecordTransaction ==
    /\ Cardinality(Pks) < MaxTxns
    /\ \E kind \in HistoryKinds :
         Save([pk               |-> NewPk,
               reference        |-> "H" \o ToString(NewPk),
               created_at       |-> NoTime,
               transaction_type |-> kind[1],
               source_account   |-> kind[2],
               destination_account |-> NoAccount,
               amount           |-> 4000000,
               fee              |-> 5000,
               tax              |-> 0,
               total_amount     |-> 0,
               status           |-> kind[3],
               requires_otp     |-> FALSE,
               otp_verified     |-> FALSE])
    /\ UNCHANGED <<accounts, now, requests, attempts, logs, users,
                 crypto_transactions, service_payments>>

\* midnight passes
NextDay ==
    /\ DateOf(now) < DateOf(StartTime) + MaxDays
    /\ now' = now + SecondsPerDay
    /\ UNCHANGED <<transactions, accounts, outcome, requests, attempts, logs, users,
                 crypto_transactions, service_payments>>

CheckedTypes == {"TRANSFER", "PAYMENT", "WITHDRAWAL", "CRYPTO_BUY", "DEPOSIT"}
CheckedAmounts == {1500000, 2500000, 6000000}

\* a caller asks user.transaction_limits.check_daily_limit(type, amount)
EvaluateLimit ==
    /\ \E user \in Users, transaction_type \in CheckedTypes,
          amount \in CheckedAmounts :
         outcome' =
           [op               |-> "check_daily_limit",
            user             |-> user,
            transaction_type |-> transaction_type,
            amount           |-> amount,
            today            |-> DateOf(now),
            result           |-> CheckDailyLimit(TransactionLimitOf(user),
                                     transaction_type, amount, DateOf(now))]
    /\ UNCHANGED <<transactions, accounts, now, requests, attempts, logs, users,
                 crypto_transactions, service_payments>>

\* the accounts the limit specifications start from: account 1 of user 1 and
\* account 2 of user 2, as BankAccount.save() creates them
DefaultAccount(user) ==
    [user                     |-> user,
     balance                  |-> 0,
     available_balance        |-> 0,
     frozen_balance           |-> 0,
     status                   |-> "ACTIVE",
     single_transaction_limit |-> DefaultSingleTransactionLimit]

InitLimit ==
    /\ transactions = <<>>
    /\ accounts = <<DefaultAccount(1), DefaultAccount(2)>>
    /\ now = StartTime
    /\ outcome = Idle
    /\ requests = <<>>
    /\ attempts = <<>>
    /\ logs = <<>>
    /\ users = <<>>
    /\ crypto_transactions = <<>>
    /\ service_payments = <<>>

NextLimit == RecordTransaction \/ NextDay \/ EvaluateLimit

SpecLimit == InitLimit /\ [][NextLimit]_vars

\* TRANSACTION_TYPE_CHOICES
TRANSACTION_TYPE_CHOICES ==
    {"TRANSFER", "DEPOSIT", "WITHDRAWAL", "PAYMENT", "AIRTIME", "CRYPTO_BUY",
     "CRYPTO_SELL", "GIFTCARD_BUY", "GIFTCARD_SELL", "SCHOOL_FEE",
     "ELECTRIC_BILL", "REFUND", "CHARGE"}

\* completed rows of user 1: one counted type and two types that no branch
\* of check_daily_limit names
UnlimitedHistoryKinds == {"TRANSFER", "DEPOSIT", "AIRTIME"}

\* a caller saves a completed transaction of 40000.00 of one of these types
RecordCompleted ==
    /\ Cardinality(Pks) < MaxTxns
    /\ \E transaction_type \in UnlimitedHistoryKinds :
         Save([pk               |-> NewPk,
               reference        |-> "H" \o ToString(NewPk),
               created_at       |-> NoTime,
               transaction_type |-> transaction_type,
               source_account   |-> 1,
               destination_account |-> NoAccount,
               amount           |-> 4000000,
               fee              |-> 5000,
               tax              |-> 0,
               total_amount     |-> 0,
               status           |-> "COMPLETED",
               requires_otp     |-> FALSE,
               otp_verified     |-> FALSE])
    /\ UNCHANGED <<accounts, now, requests, attempts, logs, users,
                 crypto_transactions, service_payments>>

\* an amount within every daily ceiling and one above every daily ceiling
AnyTypeAmounts == {2500000, DailyCryptoLimit + 1}

\* a caller asks check_daily_limit about any of the thirteen types
EvaluateAnyType ==
    /\ \E user \in Users, transaction_type \in TRANSACTION_TYPE_CHOICES,
          amount \in AnyTypeAmounts :
         outcome' =
           [op               |-> "check_daily_limit",
            user             |-> user,
            transaction_type |-> transaction_type,
            amount           |-> amount,
            today            |-> DateOf(now),
            result           |-> CheckDailyLimit(TransactionLimitOf(user),
                                     transaction_type, amount, DateOf(now))]
    /\ UNCHANGED <<transactions, accounts, now, requests, attempts, logs, users,
                 crypto_transactions, service_payments>>

NextAnyType == RecordCompleted \/ NextDay \/ EvaluateAnyType

SpecAnyType == InitLimit /\ [][NextAnyType]_vars

(* ------------------------- transfer requests ------------------------- *)

Requesters == {1, 2}
RequestTypes == {"TRANSFER", "PAYMENT"}
RequestAmounts == {4000000, 6000000}

\* a request of user 1 arrives (TransferView.post only answers "Transfer
\* initiated"; the request is what its caller then carries)
SubmitRequest ==
    /\ \E p \in Requesters \ DOMAIN requests,
          transaction_type \in RequestTypes, amount \in RequestAmounts :
         requests' =
           [q \in DOMAIN requests \cup {p} |->
              IF q # p THEN requests[q]
              ELSE [pc               |-> "submitted",
                    transaction_type |-> transaction_type,
                    amount           |-> amount]]
    /\ UNCHANGED <<transactions, accounts, now, outcome, attempts, logs, users,
                 crypto_transactions, service_payments>>

\* the request's limit check: a read of the table, under no lock
CheckRequest ==
    /\ \E p \in DOMAIN requests :
         /\ requests[p].pc = "submitted"
         /\ requests' =
              [requests EXCEPT ![p].pc =
                 IF CheckDailyLimit(TransactionLimitOf(1),
                        requests[p].transaction_type, requests[p].amount,
                        DateOf(now))
                 THEN "passed" ELSE "rejected"]
    /\ UNCHANGED <<transactions, accounts, now, outcome, attempts, logs, users,
                 crypto_transactions, service_payments>>

\* the request that passed is saved as COMPLETED
CompleteRequest ==
    /\ \E p \in DOMAIN requests :
         /\ requests[p].pc = "passed"
         /\ Save([pk               |-> NewPk,
                  reference        |-> "R" \o ToString(p),
                  created_at       |-> NoTime,
                  transaction_type |-> requests[p].transaction_type,
                  source_account   |-> 1,
                  destination_account |-> NoAccount,
                  amount           |-> requests[p].amount,
                  fee              |-> 0,
                  tax              |-> 0,
                  total_amount     |-> 0,
                  status           |-> "COMPLETED",
                  requires_otp     |-> FALSE,
                  otp_verified     |-> FALSE])
         /\ requests' = [requests EXCEPT ![p].pc = "completed"]
    /\ UNCHANGED <<accounts, now, attempts, logs, users,
                 crypto_transactions, service_payments>>

NextRace == SubmitRequest \/ CheckRequest \/ CompleteRequest

SpecRace == InitLimit /\ [][NextRace]_vars

(* -------------------------- TransactionAdmin ------------------------- *)

\* a caller saves a new transaction with a reference of its own; status
\* takes its default
CallerCreate ==
    /\ Cardinality(Pks) < MaxTxns
    /\ Save([pk               |-> NewPk,
             reference        |-> "A" \o ToString(NewPk),
             created_at       |-> NoTime,
             transaction_type |-> "TRANSFER",
             source_account   |-> NoAccount,
             destination_account |-> NoAccount,
             amount           |-> 100000,
             fee              |-> 0,
             tax              |-> 0,
             total_amount     |-> 100000,
             status           |-> DefaultStatus,
             requires_otp     |-> FALSE,
             otp_verified     |-> FALSE])
    /\ UNCHANGED <<accounts, now, requests, attempts, logs, users,
                 crypto_transactions, service_payments>>

\* TransactionAdmin add form: reference is a readonly field, so the new
\* instance reaches save() without one
AdminAddTransaction ==
    /\ Cardinality(Pks) < MaxTxns
    /\ \E status \in STATUS_CHOICES, fee \in Fees :
         Save([pk               |-> NewPk,
               reference        |-> "",
               created_at       |-> NoTime,
               transaction_type |-> "TRANSFER",
               source_account   |-> NoAccount,
               destination_account |-> NoAccount,
               amount           |-> 100000,
               fee              |-> fee,
               tax              |-> 0,
               total_amount     |-> 100000,
               status           |-> status,
               requires_otp     |-> FALSE,
               otp_verified     |-> FALSE])
    /\ UNCHANGED <<accounts, now, requests, attempts, logs, users,
                 crypto_transactions, service_payments>>

\* TransactionAdmin change form: status, the amounts and the other fields of
\* the fieldsets are editable (readonly: id, reference, created_at,
\* updated_at); the form saves through Transaction.save()
AdminChangeTransaction ==
    /\ \E pk \in Pks, status \in STATUS_CHOICES, fee \in Fees,
          total_amount \in CallerTotals,
          requires_otp \in BOOLEAN, otp_verified \in BOOLEAN :
         Save([pk               |-> pk,
               reference        |-> transactions[pk].reference,
               created_at       |-> transactions[pk].created_at,
               transaction_type |-> transactions[pk].transaction_type,
               source_account   |-> transactions[pk].source_account,
               destination_account |-> transactions[pk].destination_account,
               amount           |-> transactions[pk].amount,
               fee              |-> fee,
               tax              |-> transactions[pk].tax,
               total_amount     |-> total_amount,
               status           |-> status,
               requires_otp     |-> requires_otp,
               otp_verified     |-> otp_verified])
    /\ UNCHANGED <<accounts, now, requests, attempts, logs, users,
                 crypto_transactions, service_payments>>

\* VerifyOTPView.post: answers "OTP verified" to every request; it reads no
\* code and no transaction
VerifyOTP ==
    /\ outcome' = [Idle EXCEPT !.op = "verify_otp", !.result = "OTP verified"]
    /\ UNCHANGED <<transactions, accounts, now, requests, attempts, logs, users,
                 crypto_transactions, service_payments>>

NextAdmin ==
    \/ CallerCreate \/ AdminAddTransaction \/ AdminChangeTransaction
    \/ VerifyOTP

SpecAdmin == Init /\ [][NextAdmin]_vars

(* ------------------ TransactionLog, deletions, ledger ----------------- *)

LogPks == DOMAIN logs

\* the AutoField key of a new TransactionLog row
NewLogPk == CHOOSE pk \in 1..(Cardinality(LogPks) + 1) : pk \notin LogPks

TransferAmount == 50000

\* a caller builds a transfer from account 1 to account 2 and saves it
RecordTransfer ==
    /\ Cardinality(Pks) < MaxTransfers
    /\ {1, 2} \subseteq AccountPks
    /\ Save([pk               |-> NewPk,
             reference        |-> "T" \o ToString(NewPk),
             created_at       |-> NoTime,
             transaction_type |-> "TRANSFER",
             source_account   |-> 1,
             destination_account |-> 2,
             amount           |-> TransferAmount,
             fee              |-> 0,
             tax              |-> 0,
             total_amount     |-> 0,
             status           |-> DefaultStatus,
             requires_otp     |-> FALSE,
             otp_verified     |-> FALSE])
    /\ UNCHANGED <<accounts, now, requests, attempts, logs, users,
                 crypto_transactions, service_payments>>

\* the rows a deletion of the transactions in gone takes with it:
\* TransactionLog.transaction is on_delete=CASCADE
LogsWithout(gone) ==
    [l \in {k \in LogPks : logs[k].transaction \notin gone} |-> logs[l]]

\* TransactionAdmin delete view (ModelAdmin allows it: has_delete_permission
\* is not overridden)
AdminDeleteTransaction ==
    /\ \E pk \in Pks :
         /\ transactions' = [k \in Pks \ {pk} |-> transactions[k]]
         /\ logs' = LogsWithout({pk})
    /\ UNCHANGED <<accounts, now, outcome, requests, attempts, users,
                 crypto_transactions, service_payments>>

\* the transactions a deletion of account pk takes with it: source_account
\* and destination_account are on_delete=CASCADE
CascadedBy(pk) ==
    {k \in Pks : transactions[k].source_account = pk
                   \/ transactions[k].destination_account = pk}

\* BankAccountAdmin delete view
AdminDeleteAccount ==
    /\ \E pk \in AccountPks :
         /\ accounts' = [a \in AccountPks \ {pk} |-> accounts[a]]
         /\ transactions' = [k \in Pks \ CascadedBy(pk) |-> transactions[k]]
         /\ logs' = LogsWithout(CascadedBy(pk))
    /\ UNCHANGED <<now, outcome, requests, attempts, users,
                 crypto_transactions, service_payments>>

LogActions == {"UPDATED", "COMPLETED"}
LogStatuses == {"PENDING", "COMPLETED"}

\* a caller creates a TransactionLog row for a stored transaction (the model
\* has no save() of its own; TransactionLogAdmin refuses the add view)
CreateLog ==
    /\ Cardinality(LogPks) < MaxLogs
    /\ \E pk \in Pks, action \in LogActions, old_status \in LogStatuses :
         logs' = [l \in LogPks \cup {NewLogPk} |->
                     IF l = NewLogPk
                     THEN [transaction |-> pk,
                           action      |-> action,
                           old_status  |-> old_status,
                           new_status  |-> transactions[pk].status,
                           created_at  |-> now]
                     ELSE logs[l]]
    /\ UNCHANGED <<transactions, accounts, now, outcome, requests, attempts, users,
                 crypto_transactions, service_payments>>

\* TransactionLogAdmin change form: every field but created_at is editable
AdminChangeLog ==
    /\ \E l \in LogPks, action \in LogActions, new_status \in LogStatuses :
         logs' = [logs EXCEPT ![l].action = action,
                              ![l].new_status = new_status]
    /\ UNCHANGED <<transactions, accounts, now, outcome, requests, attempts, users,
                 crypto_transactions, service_payments>>

\* TransactionLogAdmin delete view (only has_add_permission returns False)
AdminDeleteLog ==
    /\ \E l \in LogPks : logs' = [k \in LogPks \ {l} |-> logs[k]]
    /\ UNCHANGED <<transactions, accounts, now, outcome, requests, attempts, users,
                 crypto_transactions, service_payments>>

NextLedger ==
    \/ RecordTransfer \/ AdminChangeTransaction
    \/ AdminDeleteTransaction \/ AdminDeleteAccount
    \/ CreateLog \/ AdminChangeLog \/ AdminDeleteLog

SpecLedger == InitLimit /\ [][NextLedger]_vars

(* ----------------------- cancel and complete ------------------------- *)

Workers == {"cancel", "complete"}

\* Transaction.objects.get(pk=pk): an instance holding the row's fields
Instance(pk) ==
    [pk               |-> pk,
     reference        |-> transactions[pk].reference,
     created_at       |-> transactions[pk].created_at,
     transaction_type |-> transactions[pk].transaction_type,
     source_account   |-> transactions[pk].source_account,
     destination_account |-> transactions[pk].destination_account,
     amount           |-> transactions[pk].amount,
     fee              |-> transactions[pk].fee,
     tax              |-> transactions[pk].tax,
     total_amount     |-> transactions[pk].total_amount,
     status           |-> transactions[pk].status,
     requires_otp     |-> transactions[pk].requires_otp,
     otp_verified     |-> transactions[pk].otp_verified]

\* a caller loads a PENDING row, assigns status = "PROCESSING" and saves it
StartProcessing ==
    /\ \E pk \in Pks :
         /\ IsPending(transactions[pk])
         /\ Save([Instance(pk) EXCEPT !.status = "PROCESSING"])
    /\ UNCHANGED <<accounts, now, requests, attempts, logs, users,
                 crypto_transactions, service_payments>>

\* a request handler loads the transaction it is about; nothing in the
\* repository takes a row lock (no select_for_update, no transaction.atomic)
LoadTransaction ==
    /\ \E p \in Workers \ DOMAIN requests, pk \in Pks :
         requests' = [q \in DOMAIN requests \cup {p} |->
                         IF q = p
                         THEN [pc |-> "loaded", inst |-> Instance(pk), result |-> "none"]
                         ELSE requests[q]]
    /\ UNCHANGED <<transactions, accounts, now, outcome, attempts, logs, users,
                 crypto_transactions, service_payments>>

\* the cancel request: can_be_cancelled() on the loaded instance, then
\* status = "CANCELLED" and save()
CancelTransaction ==
    /\ "cancel" \in DOMAIN requests
    /\ requests["cancel"].pc = "loaded"
    /\ LET inst == requests["cancel"].inst
       IN IF CanBeCancelled(inst)
          THEN /\ Save([inst EXCEPT !.status = "CANCELLED"])
               /\ requests' = [requests EXCEPT !["cancel"].pc = "done",
                                               !["cancel"].result = "saved"]
          ELSE /\ requests' = [requests EXCEPT !["cancel"].pc = "done",
                                               !["cancel"].result = "refused"]
               /\ UNCHANGED <<transactions, outcome, users,
                 crypto_transactions, service_payments>>
    /\ UNCHANGED <<accounts, now, attempts, logs, users,
                 crypto_transactions, service_payments>>

\* the complete request: status = "COMPLETED" on the loaded instance and
\* save(); the code has no check to make before it
CompleteTransaction ==
    /\ "complete" \in DOMAIN requests
    /\ requests["complete"].pc = "loaded"
    /\ Save([requests["complete"].inst EXCEPT !.status = "COMPLETED"])
    /\ requests' = [requests EXCEPT !["complete"].pc = "done",
                                    !["complete"].result = "saved"]
    /\ UNCHANGED <<accounts, now, attempts, logs, users,
                 crypto_transactions, service_payments>>

NextCancel ==
    \/ CallerCreate \/ StartProcessing \/ LoadTransaction
    \/ CancelTransaction \/ CompleteTransaction

SpecCancel == Init /\ [][NextCancel]_vars

(* ------------------------- rejected requests ------------------------- *)

\* an update through BankAccountSerializer that sets status = "FROZEN"
FreezeAccount ==
    /\ \E pk \in AccountPks :
         /\ IsActive(accounts[pk])
         /\ accounts' = [accounts EXCEPT ![pk].status = "FROZEN"]
    /\ UNCHANGED <<transactions, now, outcome, requests, attempts, logs, users,
                 crypto_transactions, service_payments>>

\* the two checks side by side: transfer requests checked against the daily
\* limit and debit attempts checked by can_withdraw, on accounts that may
\* have been frozen
NextReject ==
    \/ SubmitRequest \/ CheckRequest \/ CompleteRequest
    \/ DebitAttempt \/ FreezeAccount

SpecReject == InitLimit /\ [][NextReject]_vars

(* ------------------- concurrent reference generation ----------------- *)

Savers == {1, 2}

\* before the two savers start, an earlier save of the same millisecond left
\* its generated reference in the table
EarlierSave ==
    /\ transactions = <<>>
    /\ requests = <<>>
    /\ \E r \in RandomStrs :
         Save([pk               |-> NewPk,
               reference        |-> Candidate([created_at |-> StartTime], r),
               created_at       |-> StartTime,
               transaction_type |-> "TRANSFER",
               source_account   |-> NoAccount,
               destination_account |-> NoAccount,
               amount           |-> 100000,
               fee              |-> 0,
               tax              |-> 0,
               total_amount     |-> 0,
               status           |-> DefaultStatus,
               requires_otp     |-> FALSE,
               otp_verified     |-> FALSE])
    /\ UNCHANGED <<accounts, now, requests, attempts, logs, users,
                   crypto_transactions, service_payments>>

\* a caller builds Transaction(created_at=...) with no reference and calls
\* save(): the call enters generate_reference
BeginSave(p) ==
    /\ p \notin DOMAIN requests
    /\ requests' = [q \in DOMAIN requests \cup {p} |->
                       IF q = p
                       THEN [pc         |-> "generating",
                             created_at |-> StartTime,
                             reference  |-> "",
                             retried    |-> FALSE,
                             result     |-> "none"]
                       ELSE requests[q]]
    /\ UNCHANGED <<transactions, accounts, now, outcome, attempts, logs, users,
                   crypto_transactions, service_payments>>

\* one turn of the while loop whose candidate exists in the table: the loop
\* goes round again
DrawTaken(p) ==
    /\ p \in DOMAIN requests
    /\ requests[p].pc = "generating"
    /\ \E r \in RandomStrs : ReferenceExists(Candidate(requests[p], r))
    /\ requests' = [requests EXCEPT ![p].retried = TRUE]
    /\ UNCHANGED <<transactions, accounts, now, outcome, attempts, logs, users,
                   crypto_transactions, service_payments>>

\* one turn of the while loop whose candidate is not in the table:
\* generate_reference returns it
DrawFree(p) ==
    /\ p \in DOMAIN requests
    /\ requests[p].pc = "generating"
    /\ \E reference \in GenerateReference(requests[p]) :
         requests' = [requests EXCEPT ![p].pc = "generated",
                                      ![p].reference = reference]
    /\ UNCHANGED <<transactions, accounts, now, outcome, attempts, logs, users,
                   crypto_transactions, service_payments>>

\* the rest of save(): total_amount and super().save(), which inserts the row
InsertGenerated(p) ==
    /\ p \in DOMAIN requests
    /\ requests[p].pc = "generated"
    /\ Save([pk               |-> NewPk,
             reference        |-> requests[p].reference,
             created_at       |-> requests[p].created_at,
             transaction_type |-> "TRANSFER",
             source_account   |-> NoAccount,
             destination_account |-> NoAccount,
             amount           |-> 100000,
             fee              |-> 0,
             tax              |-> 0,
             total_amount     |-> 0,
             status           |-> DefaultStatus,
             requires_otp     |-> FALSE,
             otp_verified     |-> FALSE])
    /\ requests' = [requests EXCEPT ![p].pc = "done",
                                    ![p].result = outcome'.result]
    /\ UNCHANGED <<accounts, now, attempts, logs, users,
                   crypto_transactions, service_payments>>

NextGen ==
    \/ EarlierSave
    \/ \E p \in Savers :
         BeginSave(p) \/ DrawTaken(p) \/ DrawFree(p) \/ InsertGenerated(p)

SpecGen == Init /\ [][NextGen]_vars

\* the loop keeps turning and every turn draws the suffix at random, so a
\* free suffix is drawn in the end; a save that has its reference goes on
SpecGenFair ==
    /\ SpecGen
    /\ \A p \in Savers : WF_vars(DrawFree(p)) /\ WF_vars(InsertGenerated(p))

(* --------------------------- authentication -------------------------- *)

UserPks == DOMAIN users

\* a user id no row has
UnknownUser == 0

\* the values the admin may put in account_locked_until: none, or one second
\* after the start
LockTimes == {NoTime, StartTime + 1}

\* User.is_account_locked()
IsAccountLocked(user) ==
    user.account_locked_until # NoTime /\ user.account_locked_until > now

\* refresh_jwt_token: the only test before a new token is `user.is_active`
RefreshAllowed(user) == user.is_active

\* EmailBackend.user_can_authenticate()
UserCanAuthenticate(user) ==
    IF ~user.is_active THEN FALSE
    ELSE IF IsAccountLocked(user) THEN FALSE
    ELSE TRUE

\* generate_jwt_token reads jwt.datetime.datetime, which the jwt package
\* does not promise to have: the call returns a token or raises
\* AttributeError, depending on the installed library
GenerateJwtToken == {"token", "AttributeError"}

\* what a call saw and answered
AuthOutcome(op, user_id, good, result) ==
    [op          |-> op,
     user        |-> user_id,
     known       |-> user_id \in UserPks,
     active      |-> IF user_id \in UserPks THEN users[user_id].is_active ELSE FALSE,
     locked      |-> IF user_id \in UserPks THEN IsAccountLocked(users[user_id]) ELSE FALSE,
     credentials |-> good,
     result      |-> result]

\* UserAdmin change form: is_active and account_locked_until are editable
AdminChangeUser ==
    /\ \E pk \in UserPks, is_active \in BOOLEAN, locked_until \in LockTimes :
         users' = [users EXCEPT ![pk].is_active = is_active,
                                ![pk].account_locked_until = locked_until]
    /\ UNCHANGED <<transactions, accounts, now, outcome, requests, attempts, logs,
                   crypto_transactions, service_payments>>

\* the clock advances by a second
Tick ==
    /\ now < StartTime + MaxTicks
    /\ now' = now + 1
    /\ UNCHANGED <<transactions, accounts, outcome, requests, attempts, logs, users,
                   crypto_transactions, service_payments>>

\* EmailBackend.authenticate(request, username, password)
Authenticate ==
    /\ \E user_id \in UserPks \cup {UnknownUser}, password_ok \in BOOLEAN :
         outcome' = AuthOutcome("authenticate", user_id, password_ok,
                        IF user_id \notin UserPks THEN "None"
                        ELSE IF password_ok /\ UserCanAuthenticate(users[user_id])
                             THEN "user"
                             ELSE "None")
    /\ UNCHANGED <<transactions, accounts, now, requests, attempts, logs, users,
                   crypto_transactions, service_payments>>

\* EmailBackend.get_user(user_id)
GetUser ==
    /\ \E user_id \in UserPks \cup {UnknownUser} :
         outcome' = AuthOutcome("get_user", user_id, TRUE,
                        IF user_id \notin UserPks THEN "None"
                        ELSE IF UserCanAuthenticate(users[user_id]) THEN "user"
                             ELSE "None")
    /\ UNCHANGED <<transactions, accounts, now, requests, attempts, logs, users,
                   crypto_transactions, service_payments>>

\* JWTAuthentication.authenticate(request) with a Bearer header; token_ok:
\* jwt.decode accepts the token (signature and expiry) and it names a user
JwtAuthenticate ==
    /\ \E user_id \in UserPks \cup {UnknownUser}, token_ok \in BOOLEAN :
         outcome' = AuthOutcome("jwt_authenticate", user_id, token_ok,
                        IF ~token_ok THEN "AuthenticationFailed"
                        ELSE IF user_id \notin UserPks THEN "AuthenticationFailed"
                        ELSE IF ~users[user_id].is_active THEN "AuthenticationFailed"
                        ELSE IF IsAccountLocked(users[user_id]) THEN "AuthenticationFailed"
                        ELSE "user")
    /\ UNCHANGED <<transactions, accounts, now, requests, attempts, logs, users,
                   crypto_transactions, service_payments>>

\* refresh_jwt_token(token)
RefreshJwtToken ==
    /\ \E user_id \in UserPks \cup {UnknownUser}, token_ok \in BOOLEAN,
          generated \in GenerateJwtToken :
         outcome' = AuthOutcome("refresh_jwt_token", user_id, token_ok,
                        IF ~token_ok THEN "AuthenticationFailed"
                        ELSE IF user_id \notin UserPks THEN "AuthenticationFailed"
                        ELSE IF ~RefreshAllowed(users[user_id]) THEN "AuthenticationFailed"
                        ELSE generated)
    /\ UNCHANGED <<transactions, accounts, now, requests, attempts, logs, users,
                   crypto_transactions, service_payments>>

\* a user as create_user leaves it: active, never locked
DefaultUser == [is_active |-> TRUE, account_locked_until |-> NoTime]

InitAuth ==
    /\ transactions = <<>>
    /\ accounts = <<>>
    /\ now = StartTime
    /\ outcome = Idle
    /\ requests = <<>>
    /\ attempts = <<>>
    /\ logs = <<>>
    /\ users = [pk \in Users |-> DefaultUser]
    /\ crypto_transactions = <<>>
    /\ service_payments = <<>>

NextAuth ==
    \/ AdminChangeUser \/ Tick
    \/ Authenticate \/ GetUser \/ JwtAuthenticate \/ RefreshJwtToken

SpecAuth == InitAuth /\ [][NextAuth]_vars

(* ------------------------------ re-saves ----------------------------- *)

\* a caller builds Transaction(created_at=...) with no reference and saves
\* it: save() generates the reference
CreateGenerated ==
    /\ Cardinality(Pks) < MaxTxns
    /\ Save([pk               |-> NewPk,
             reference        |-> "",
             created_at       |-> StartTime,
             transaction_type |-> "TRANSFER",
             source_account   |-> NoAccount,
             destination_account |-> NoAccount,
             amount           |-> 100000,
             fee              |-> 0,
             tax              |-> 0,
             total_amount     |-> 0,
             status           |-> DefaultStatus,
             requires_otp     |-> FALSE,
             otp_verified     |-> FALSE])
    /\ UNCHANGED <<accounts, now, requests, attempts, logs, users,
                   crypto_transactions, service_payments>>

\* a caller loads a stored row, assigns fee and status and saves it again
Resave ==
    /\ \E pk \in Pks, fee \in Fees, status \in STATUS_CHOICES :
         Save([Instance(pk) EXCEPT !.fee = fee, !.status = status])
    /\ UNCHANGED <<accounts, now, requests, attempts, logs, users,
                   crypto_transactions, service_payments>>

NextResave == CreateGenerated \/ Resave

SpecResave == Init /\ [][NextResave]_vars

(* ------------------------- CryptoTransaction ------------------------- *)

CryptoPks == DOMAIN crypto_transactions

NewCryptoPk == CHOOSE pk \in 1..(Cardinality(CryptoPks) + 1) : pk \notin CryptoPks

CryptoPrefix == "CRX"

\* f"{prefix}{timestamp}{random_str}" of CryptoTransaction.generate_reference,
\* for the draws whose candidate is not in the table
CryptoGenerateReference(inst) ==
    {c \in {CryptoPrefix \o TimestampPart(inst.created_at) \o r : r \in RandomStrs} :
        \A pk \in CryptoPks : crypto_transactions[pk].reference # c}

\* if self.amount and self.price_per_unit:
\*     self.total_value = self.amount * self.price_per_unit
\* a zero amount or price leaves total_value as the instance holds it
CryptoTotalValue(inst) ==
    IF inst.amount # 0 /\ inst.price_per_unit # 0
    THEN inst.amount * inst.price_per_unit
    ELSE inst.total_value

\* CryptoTransaction.save()
CryptoSave(inst) ==
    IF inst.reference = "" /\ inst.created_at = NoTime
    THEN /\ outcome' = [op |-> "crypto_save", pk |-> inst.pk, result |-> "TypeError"]
         /\ UNCHANGED crypto_transactions
    ELSE \E reference \in
             (IF inst.reference = "" THEN CryptoGenerateReference(inst)
                                     ELSE {inst.reference}) :
           IF \E other \in CryptoPks \ {inst.pk} :
                  crypto_transactions[other].reference = reference
           THEN /\ outcome' = [op |-> "crypto_save", pk |-> inst.pk,
                               result |-> "IntegrityError"]
                /\ UNCHANGED crypto_transactions
           ELSE /\ crypto_transactions' =
                     [pk \in CryptoPks \cup {inst.pk} |->
                        IF pk = inst.pk
                        THEN [reference      |-> reference,
                              amount         |-> inst.amount,
                              price_per_unit |-> inst.price_per_unit,
                              total_value    |-> CryptoTotalValue(inst),
                              created_at     |-> IF inst.pk \in CryptoPks
                                                 THEN inst.created_at ELSE now]
                        ELSE crypto_transactions[pk]]
                /\ outcome' = [op |-> "crypto_save", pk |-> inst.pk,
                               result |-> "saved"]

\* amounts in whole coins and prices in hundredths, so that the product has
\* no digit beyond the second decimal place
CryptoAmounts == {1, 2}
CryptoPrices == {0, 150000}
CryptoReferences == {"", "CRX1"}

\* a caller builds CryptoTransaction(...) and saves it; total_value takes
\* its default 0.00
CryptoCreate ==
    /\ Cardinality(CryptoPks) < MaxTxns
    /\ \E reference \in CryptoReferences, created_at \in {NoTime, StartTime},
          amount \in CryptoAmounts, price \in CryptoPrices :
         CryptoSave([pk             |-> NewCryptoPk,
                     reference      |-> reference,
                     created_at     |-> created_at,
                     amount         |-> amount,
                     price_per_unit |-> price,
                     total_value    |-> 0])
    /\ UNCHANGED <<transactions, accounts, now, requests, attempts, logs, users,
                   service_payments>>

\* a caller (or the CryptoTransactionAdmin change form) loads a row, assigns
\* amount and price_per_unit and saves it
CryptoResave ==
    /\ \E pk \in CryptoPks, amount \in CryptoAmounts, price \in CryptoPrices :
         CryptoSave([pk             |-> pk,
                     reference      |-> crypto_transactions[pk].reference,
                     created_at     |-> crypto_transactions[pk].created_at,
                     amount         |-> amount,
                     price_per_unit |-> price,
                     total_value    |-> crypto_transactions[pk].total_value])
    /\ UNCHANGED <<transactions, accounts, now, requests, attempts, logs, users,
                   service_payments>>

NextCrypto == CryptoCreate \/ CryptoResave

SpecCrypto == Init /\ [][NextCrypto]_vars

(* -------------------------- service payments ------------------------- *)

\* AirtimeTopUp, BillPayment, SchoolFeePayment, PaymentTransaction and
\* GiftCardTransaction rows. Field values are in hundredths; the values
\* save() computes are in parts, a part being a ten-thousandth of a
\* hundredth, so that a percentage of an amount in hundredths is exact.
MaxPayments == 1

PartsPerHundredth == 10000

Exact(hundredths) == hundredths * PartsPerHundredth

ServicePks == DOMAIN service_payments

NewServicePk == CHOOSE pk \in 1..(Cardinality(ServicePks) + 1) : pk \notin ServicePks

ProviderKinds == {"AirtimeTopUp", "BillPayment"}

ServiceKinds == ProviderKinds \cup {"SchoolFeePayment"}

PaymentKinds == ServiceKinds \cup {"PaymentTransaction", "GiftCardTransaction"}

ServicePrefix(kind) ==
    CASE kind = "AirtimeTopUp"        -> "AIR"
      [] kind = "BillPayment"         -> "BIL"
      [] kind = "SchoolFeePayment"    -> "SCH"
      [] kind = "PaymentTransaction"  -> "PAY"
      [] kind = "GiftCardTransaction" -> "GFT"

\* generate_reference of the five models, for the draws whose candidate is
\* not in the model's table
ServiceGenerateReference(inst) ==
    {c \in {ServicePrefix(inst.kind) \o TimestampPart(inst.created_at) \o r :
              r \in RandomStrs} :
        \A pk \in ServicePks :
            service_payments[pk].kind = inst.kind
              => service_payments[pk].reference # c}

\* Decimal('50.00'), the charge of every SchoolFeePayment
SchoolFeeCharge == 5000

\* a charge that keeps what the caller put on the instance
ServiceChargeSupplied(inst) == inst.service_charge

\* the service_charge that save() assigns, in parts:
\* (self.amount * self.provider.service_charge) / 100 for a PERCENTAGE
\* provider, with amount a/100 and provider.service_charge p/100, is a*p parts
ServiceCharge(inst) ==
    IF inst.kind \in ProviderKinds
    THEN IF inst.provider.charge_type = "PERCENTAGE"
         THEN inst.amount * inst.provider.service_charge
         ELSE Exact(inst.provider.service_charge)
    ELSE IF inst.kind = "SchoolFeePayment"
         THEN Exact(SchoolFeeCharge)
         ELSE inst.service_charge

\* the total_amount that save() assigns, in parts
ServiceTotalAmount(inst) ==
    CASE inst.kind \in ServiceKinds ->
           Exact(inst.amount) + ServiceCharge(inst)
      [] inst.kind = "PaymentTransaction" ->
           Exact(inst.amount) + Exact(inst.processing_fee) + Exact(inst.service_fee)
      [] inst.kind = "GiftCardTransaction" ->
           Exact(inst.amount) + Exact(inst.fee)

\* a DecimalField(decimal_places=2) column stores a value rounded to
\* hundredths; the database backend decides how a half is rounded
RoundingModes == {"ROUND_HALF_EVEN", "ROUND_HALF_UP"}

Quantize(parts, rounding) ==
    LET q == parts \div PartsPerHundredth
        r == parts % PartsPerHundredth
        half == PartsPerHundredth \div 2
    IN IF r > half \/ (r = half /\ (rounding = "ROUND_HALF_UP" \/ q % 2 = 1))
       THEN q + 1
       ELSE q

\* save() of the five models: the reference when it is empty, then the
\* charge and the total, then the row
ServiceSave(inst, adding) ==
    LET after == [inst EXCEPT !.service_charge = ServiceCharge(inst),
                              !.total_amount = ServiceTotalAmount(inst)]
        report(result) == [op             |-> "service_save",
                           pk             |-> inst.pk,
                           adding         |-> adding,
                           kind           |-> inst.kind,
                           amount         |-> inst.amount,
                           provider       |-> inst.provider,
                           supplied       |-> inst.service_charge,
                           service_charge |-> after.service_charge,
                           total_amount   |-> after.total_amount,
                           result         |-> result]
    IN IF inst.reference = "" /\ inst.created_at = NoTime
       THEN /\ outcome' = report("TypeError")
            /\ UNCHANGED service_payments
       ELSE \E reference \in
                (IF inst.reference = "" THEN ServiceGenerateReference(inst)
                                        ELSE {inst.reference}),
               rounding \in RoundingModes :
              IF \E other \in ServicePks \ {inst.pk} :
                     /\ service_payments[other].kind = inst.kind
                     /\ service_payments[other].reference = reference
              THEN /\ outcome' = report("IntegrityError")
                   /\ UNCHANGED service_payments
              ELSE /\ service_payments' =
                        [pk \in ServicePks \cup {inst.pk} |->
                           IF pk = inst.pk
                           THEN [kind           |-> inst.kind,
                                 reference      |-> reference,
                                 created_at     |-> IF adding THEN now
                                                    ELSE inst.created_at,
                                 amount         |-> inst.amount,
                                 provider       |-> inst.provider,
                                 service_charge |->
                                     Quantize(after.service_charge, rounding),
                                 processing_fee |-> inst.processing_fee,
                                 service_fee    |-> inst.service_fee,
                                 fee            |-> inst.fee,
                                 total_amount   |->
                                     Quantize(after.total_amount, rounding)]
                           ELSE service_payments[pk]]
                   /\ outcome' = report("saved")

\* a provider charging 10.00 percent and one charging a fixed 100.00
Providers == {[charge_type |-> "PERCENTAGE", service_charge |-> 1000],
              [charge_type |-> "FIXED", service_charge |-> 10000]}

NoProvider == [charge_type |-> "FIXED", service_charge |-> 0]

PaymentAmounts == {5005, 10000}
SuppliedCharges == {0, Exact(123)}
PaymentFees == {0, 150}

\* the field values a caller can give an instance of each model
ServiceInputs(kind) ==
    IF kind \in ProviderKinds
    THEN [amount : PaymentAmounts, provider : Providers,
          service_charge : SuppliedCharges,
          processing_fee : {0}, service_fee : {0}, fee : {0}]
    ELSE IF kind = "SchoolFeePayment"
    THEN [amount : PaymentAmounts, provider : {NoProvider},
          service_charge : SuppliedCharges,
          processing_fee : {0}, service_fee : {0}, fee : {0}]
    ELSE IF kind = "PaymentTransaction"
    THEN [amount : PaymentAmounts, provider : {NoProvider},
          service_charge : {0},
          processing_fee : PaymentFees, service_fee : PaymentFees, fee : {0}]
    ELSE [amount : PaymentAmounts, provider : {NoProvider},
          service_charge : {0},
          processing_fee : {0}, service_fee : {0}, fee : PaymentFees]

\* a caller builds an instance of one of the models and saves it
ServiceCreate ==
    /\ Cardinality(ServicePks) < MaxPayments
    /\ \E kind \in PaymentKinds, created_at \in {NoTime, StartTime} :
         \E input \in ServiceInputs(kind) :
           ServiceSave([kind           |-> kind,
                        pk             |-> NewServicePk,
                        reference      |-> "",
                        created_at     |-> created_at,
                        amount         |-> input.amount,
                        provider       |-> input.provider,
                        service_charge |-> input.service_charge,
                        processing_fee |-> input.processing_fee,
                        service_fee    |-> input.service_fee,
                        fee            |-> input.fee,
                        total_amount   |-> 0], TRUE)
    /\ UNCHANGED <<transactions, accounts, now, requests, attempts, logs, users,
                   crypto_transactions>>

\* a caller (or the model's admin change form) loads a row, assigns its
\* fields and saves it
ServiceResave ==
    /\ \E pk \in ServicePks :
         \E input \in ServiceInputs(service_payments[pk].kind) :
           ServiceSave([kind           |-> service_payments[pk].kind,
                        pk             |-> pk,
                        reference      |-> service_payments[pk].reference,
                        created_at     |-> service_payments[pk].created_at,
                        amount         |-> input.amount,
                        provider       |-> input.provider,
                        service_charge |-> input.service_charge,
                        processing_fee |-> input.processing_fee,
                        service_fee    |-> input.service_fee,
                        fee            |-> input.fee,
                        total_amount   |-> Exact(service_payments[pk].total_amount)],
                       FALSE)
    /\ UNCHANGED <<transactions, accounts, now, requests, attempts, logs, users,
                   crypto_transactions>>

NextService == ServiceCreate \/ ServiceResave

SpecService == Init /\ [][NextService]_vars

(* ------------------------------ claims ------------------------------- *)

\* C1: after every Transaction.save() the persisted total_amount equals
\* amount + fee + tax, whatever total_amount the caller had assigned: every
\* row of the table carries the recomputed total, and the row a save has just
\* written carries it even when the caller supplied another value.
C1_TotalRecomputed ==
    /\ \A pk \in Pks :
          transactions[pk].total_amount =
              transactions[pk].amount + transactions[pk].fee + transactions[pk].tax
    /\ outcome.result = "saved" =>
          /\ outcome.pk \in Pks
          /\ transactions[outcome.pk].total_amount =
                 transactions[outcome.pk].amount + transactions[outcome.pk].fee
                     + transactions[outcome.pk].tax

\* a save of amount 1000.00, fee 50.00, tax 20.00 whose caller had assigned
\* another total persisted 1070.00
C1_Witness ==
    /\ outcome.result = "saved"
    /\ outcome.pk \in Pks
    /\ outcome.supplied_total = 1
    /\ transactions[outcome.pk].amount = 100000
    /\ transactions[outcome.pk].fee = 5000
    /\ transactions[outcome.pk].tax = 2000
    /\ transactions[outcome.pk].total_amount = 107000

\* the references generate_reference can produce in this model
GeneratedForms ==
    {Prefix \o TimestampPart(t) \o r :
        t \in CallerTimes \ {NoTime}, r \in RandomStrs}

\* C2: creating a new Transaction for which the caller supplied no reference
\* (created_at still unset when save() runs) succeeds: the row is persisted
\* with status PENDING, its total computed and a reference that starts with
\* the prefix TXN.
C2_FirstSaveSucceeds ==
    (outcome.op = "save" /\ outcome.adding
        /\ ~outcome.had_reference /\ ~outcome.had_created_at) =>
      /\ outcome.result = "saved"
      /\ outcome.pk \in Pks
      /\ transactions[outcome.pk].status = "PENDING"
      /\ transactions[outcome.pk].total_amount =
             transactions[outcome.pk].amount + transactions[outcome.pk].fee
                 + transactions[outcome.pk].tax
      /\ transactions[outcome.pk].reference \in GeneratedForms

\* C3: no two persisted Transaction rows have the same reference.
C3_ReferencesUnique ==
    \A p \in Pks : \A q \in Pks :
        transactions[p].reference = transactions[q].reference => p = q

\* two rows created in the same millisecond hold generated references that
\* differ only in the random suffix, and a save that offered a taken
\* reference was refused
C3_Witness ==
    /\ Cardinality(Pks) = 2
    /\ transactions[1].reference = "TXN1000AAAAAAAA"
    /\ transactions[2].reference = "TXN10007ZZZZZZZ"
    /\ outcome.result = "IntegrityError"

\* the limit category of a transaction type
Category(transaction_type) ==
    IF transaction_type \in {"TRANSFER", "PAYMENT"} THEN "transfer"
    ELSE IF transaction_type = "WITHDRAWAL" THEN "withdrawal"
    ELSE IF transaction_type \in {"CRYPTO_BUY", "CRYPTO_SELL"} THEN "crypto"
    ELSE "none"

\* what row pk contributes to the user's completed total of a category on a
\* day: its amount when it is COMPLETED, of the category, created that day and
\* drawn on an account of the user, and nothing otherwise
Contribution(pk, user, category, day) ==
    IF /\ transactions[pk].status = "COMPLETED"
       /\ Category(transactions[pk].transaction_type) = category
       /\ DateOf(transactions[pk].created_at) = day
       /\ transactions[pk].source_account # NoAccount
       /\ accounts[transactions[pk].source_account].user = user
    THEN transactions[pk].amount ELSE 0

RECURSIVE CompletedTotal(_, _, _, _)
CompletedTotal(n, user, category, day) ==
    IF n = 0 THEN 0
    ELSE Contribution(n, user, category, day)
             + CompletedTotal(n - 1, user, category, day)

DailyCeiling(category) ==
    CASE category = "transfer" -> DailyTransferLimit
      [] category = "withdrawal" -> DailyWithdrawalLimit
      [] category = "crypto" -> DailyCryptoLimit

\* C4: check_daily_limit(type, amount) for a type of the transfer, withdrawal
\* or crypto category accepts exactly when the user's completed total of that
\* category today plus amount is at most the category's daily limit; rows
\* that are not COMPLETED, of another category, of another day or of another
\* user's account do not count.
C4_DailyLimit ==
    (outcome.op = "check_daily_limit"
        /\ Category(outcome.transaction_type) # "none") =>
      (outcome.result <=>
          CompletedTotal(Cardinality(Pks), outcome.user,
              Category(outcome.transaction_type), outcome.today)
            + outcome.amount
          <= DailyCeiling(Category(outcome.transaction_type)))

\* with 80000.00 completed today in two rows (a transfer and a payment), a
\* transfer of 25000.00 is rejected
C4_Witness ==
    /\ outcome.op = "check_daily_limit"
    /\ outcome.user = 1
    /\ outcome.transaction_type = "TRANSFER"
    /\ outcome.amount = 2500000
    /\ outcome.today = DateOf(now)
    /\ ~outcome.result
    /\ Cardinality(Pks) = 2
    /\ transactions[1].transaction_type = "TRANSFER"
    /\ transactions[2].transaction_type = "PAYMENT"
    /\ CompletedTotal(2, 1, "transfer", DateOf(now)) = 8000000

SingleCeiling(category) ==
    CASE category = "transfer" -> SingleTransferLimit
      [] category = "withdrawal" -> SingleWithdrawalLimit
      [] category = "crypto" -> SingleCryptoLimit

\* the calendar month of a day of the model: the days 0..30 are January 1970
MonthOfDay(day) == IF day < 31 THEN 0 ELSE 1

RECURSIVE MonthTotal(_, _, _, _)
MonthTotal(n, user, category, month) ==
    IF n = 0 THEN 0
    ELSE (IF MonthOfDay(DateOf(transactions[n].created_at)) = month
          THEN Contribution(n, user, category, DateOf(transactions[n].created_at))
          ELSE 0)
         + MonthTotal(n - 1, user, category, month)

\* C5: a request the limit check accepts exceeds none of the three ceilings
\* of its category: the daily one, the single-transaction one and (transfer,
\* withdrawal) the monthly one.
C5_AllCeilings ==
    (outcome.op = "check_daily_limit" /\ outcome.result
        /\ Category(outcome.transaction_type) # "none") =>
      LET category == Category(outcome.transaction_type)
      IN /\ CompletedTotal(Cardinality(Pks), outcome.user, category, outcome.today)
              + outcome.amount <= DailyCeiling(category)
         /\ outcome.amount <= SingleCeiling(category)
         /\ category = "transfer" =>
              MonthTotal(Cardinality(Pks), outcome.user, category,
                  MonthOfDay(outcome.today)) + outcome.amount
                <= MonthlyTransferLimit
         /\ category = "withdrawal" =>
              MonthTotal(Cardinality(Pks), outcome.user, category,
                  MonthOfDay(outcome.today)) + outcome.amount
                <= MonthlyWithdrawalLimit

\* C6: two requests of the same user and category never both pass the limit
\* check and both complete when the completed total with both amounts exceeds
\* the daily ceiling.
C6_NoDoublePass ==
    \A p \in DOMAIN requests : \A q \in DOMAIN requests :
        (p # q /\ requests[p].pc = "completed" /\ requests[q].pc = "completed")
        => CompletedTotal(Cardinality(Pks), 1, "transfer", DateOf(now))
               <= DailyTransferLimit

\* C7: in every reachable state every BankAccount satisfies
\* balance = available_balance + frozen_balance.
C7_BalanceInvariant ==
    \A pk \in AccountPks :
        accounts[pk].balance =
            accounts[pk].available_balance + accounts[pk].frozen_balance

\* C8: a debit of amount A is admitted exactly when the account is ACTIVE and
\* A <= available_balance and A <= single_transaction_limit, and the step
\* that admits it moves A from available_balance to frozen_balance (stated
\* for accounts whose three balances agree).
C8_AdmittedDebitReserves ==
    [][\A p \in DOMAIN attempts' \ DOMAIN attempts :
          LET a == attempts'[p].account
              A == attempts'[p].amount
          IN accounts[a].balance =
                 accounts[a].available_balance + accounts[a].frozen_balance
             =>
             /\ attempts'[p].admitted <=>
                   /\ accounts[a].status = "ACTIVE"
                   /\ A <= accounts[a].available_balance
                   /\ A <= accounts[a].single_transaction_limit
             /\ attempts'[p].admitted =>
                   /\ accounts'[a].available_balance =
                          accounts[a].available_balance - A
                   /\ accounts'[a].frozen_balance =
                          accounts[a].frozen_balance + A
             /\ ~attempts'[p].admitted => accounts'[a] = accounts[a]]_vars

\* C9: of two debit attempts on the same account whose amounts each fit the
\* available balance but together exceed it, exactly one is admitted (stated
\* for accounts whose three balances agree).
C9_OneDebitWins ==
    \A p \in DOMAIN attempts : \A q \in DOMAIN attempts :
        (/\ p # q
         /\ attempts[p].account = attempts[q].account
         /\ accounts[attempts[p].account].balance =
                accounts[attempts[p].account].available_balance
                    + accounts[attempts[p].account].frozen_balance
         /\ accounts[attempts[p].account].available_balance = attempts[p].available
         /\ attempts[p].active /\ attempts[q].active
         /\ attempts[p].available = attempts[q].available
         /\ attempts[p].in_limit /\ attempts[q].in_limit
         /\ attempts[p].amount <= attempts[p].available
         /\ attempts[q].amount <= attempts[p].available
         /\ attempts[p].amount + attempts[q].amount > attempts[p].available)
        => (attempts[p].admitted # attempts[q].admitted)

AllowedEdges ==
    {<<"PENDING", "PROCESSING">>, <<"PROCESSING", "COMPLETED">>,
     <<"PROCESSING", "FAILED">>, <<"PENDING", "CANCELLED">>,
     <<"PROCESSING", "CANCELLED">>, <<"COMPLETED", "REVERSED">>}

\* C10: the status of a Transaction only changes along PENDING->PROCESSING,
\* PROCESSING->COMPLETED, PROCESSING->FAILED, PENDING->CANCELLED,
\* PROCESSING->CANCELLED and COMPLETED->REVERSED, and every new transaction
\* starts PENDING.
C10_StatusEdges ==
    [][/\ \A pk \in DOMAIN transactions' \ DOMAIN transactions :
            transactions'[pk].status = "PENDING"
       /\ \A pk \in DOMAIN transactions' \cap DOMAIN transactions :
            transactions'[pk].status # transactions[pk].status =>
              <<transactions[pk].status, transactions'[pk].status>>
                  \in AllowedEdges]_vars

\* C11: a row's status becomes COMPLETED only when it was PROCESSING: no
\* step turns a stored row that is PENDING, FAILED or in any other status
\* than PROCESSING into a COMPLETED row.
C11_CompletedOnlyFromProcessing ==
    [][\A pk \in Pks \cap DOMAIN transactions' :
          (~IsCompleted(transactions[pk]) /\ IsCompleted(transactions'[pk]))
              => transactions[pk].status = "PROCESSING"]_vars

\* C12: a row's status becomes CANCELLED only when can_be_cancelled() held
\* for it: no step turns a COMPLETED, FAILED or REVERSED row into a
\* CANCELLED row.
C12_CancelledOnlyWhenCancellable ==
    [][\A pk \in Pks \cap DOMAIN transactions' :
          (transactions[pk].status # "CANCELLED"
             /\ transactions'[pk].status = "CANCELLED")
              => CanBeCancelled(transactions[pk])]_vars

\* C13: a transfer's status becomes REVERSED only when can_be_reversed()
\* held for it (it was COMPLETED), and on that step the source account's
\* balance grows by the amount and the destination account's balance
\* shrinks by the amount; a REVERSED row stays REVERSED, so it is reversed
\* at most once.
C13_ReversalMovesFundsBack ==
    [][\A pk \in Pks \cap DOMAIN transactions' :
          LET row == transactions[pk]
          IN /\ (row.status # "REVERSED" /\ transactions'[pk].status = "REVERSED")
                  => /\ CanBeReversed(row)
                     /\ row.source_account \in AccountPks \cap DOMAIN accounts'
                          => accounts'[row.source_account].balance
                               = accounts[row.source_account].balance + row.amount
                     /\ row.destination_account \in AccountPks \cap DOMAIN accounts'
                          => accounts'[row.destination_account].balance
                               = accounts[row.destination_account].balance - row.amount
             /\ row.status = "REVERSED" => transactions'[pk].status = "REVERSED"]_vars

\* C15: every step that changes the status of a stored transaction adds
\* exactly one TransactionLog row for it, holding the old and the new status.
C15_StatusChangeLogged ==
    [][\A pk \in Pks \cap DOMAIN transactions' :
          transactions'[pk].status # transactions[pk].status
            => Cardinality({l \in DOMAIN logs' \ LogPks :
                              /\ logs'[l].transaction = pk
                              /\ logs'[l].old_status = transactions[pk].status
                              /\ logs'[l].new_status = transactions'[pk].status}) = 1]_vars

\* C16: the audit log is append-only: every TransactionLog row of a state is
\* in the next state with the same fields.
C16_LogAppendOnly ==
    [][\A l \in LogPks : l \in DOMAIN logs' /\ logs'[l] = logs[l]]_vars

\* C17: a stored transaction is never destroyed: every row of the
\* transaction table is still in the table after every step.
C17_TransactionsKept ==
    [][Pks \subseteq DOMAIN transactions']_vars

\* C14: when a cancel and a complete were both issued against the same
\* transaction while it was PROCESSING, exactly one of them takes effect:
\* once both have finished, one was saved and the other was refused.
C14_ExactlyOneWins ==
    ({"cancel", "complete"} \subseteq DOMAIN requests
       /\ requests["cancel"].pc = "done"
       /\ requests["complete"].pc = "done"
       /\ requests["cancel"].inst.pk = requests["complete"].inst.pk
       /\ requests["cancel"].inst.status = "PROCESSING"
       /\ requests["complete"].inst.status = "PROCESSING")
      => Cardinality({p \in Workers : requests[p].result = "saved"}) = 1

\* C18: a stored transaction that requires an OTP and is not verified stays
\* PENDING for as long as it is not verified, and otp_verified turns true
\* only on a step of the OTP verification.
C18_OtpGate ==
    [][\A pk \in Pks \cap DOMAIN transactions' :
          LET row == transactions[pk]
              after == transactions'[pk]
          IN /\ (row.requires_otp /\ ~row.otp_verified /\ IsPending(row)
                   /\ after.requires_otp /\ ~after.otp_verified)
                  => IsPending(after)
             /\ (~row.otp_verified /\ after.otp_verified)
                  => outcome'.op = "verify_otp"]_vars

\* C19: a rejected request changes nothing: on a step where can_withdraw
\* refuses a debit attempt or check_daily_limit rejects a request, the
\* transaction table, the account table and the log table are the same
\* before and after.
C19_RejectionChangesNothing ==
    [][((\E p \in DOMAIN attempts' \ DOMAIN attempts : ~attempts'[p].admitted)
          \/ (\E p \in DOMAIN requests \cap DOMAIN requests' :
                 requests[p].pc = "submitted" /\ requests'[p].pc = "rejected"))
        => /\ transactions' = transactions
           /\ accounts' = accounts
           /\ logs' = logs]_vars

\* C19 witness: can_withdraw has refused one attempt on a frozen account and
\* one on an active account without the funds, and check_daily_limit has
\* rejected a request, with a transaction in the table.
C19_Witness ==
    /\ \E p \in DOMAIN attempts :
         ~attempts[p].admitted /\ ~attempts[p].active
    /\ \E p \in DOMAIN attempts :
         /\ ~attempts[p].admitted /\ attempts[p].active
         /\ attempts[p].amount > attempts[p].available
    /\ \E p \in DOMAIN requests : requests[p].pc = "rejected"
    /\ Pks # {}

\* C21: on the step that completes a debit (the transfer's status becomes
\* COMPLETED), the source account's balance and frozen_balance both shrink
\* by the amount and its available_balance stays what it was.
C21_CommitPostsDebit ==
    [][\A pk \in Pks \cap DOMAIN transactions' :
          LET row == transactions[pk]
              src == row.source_account
          IN (~IsCompleted(row) /\ IsCompleted(transactions'[pk])
                /\ src \in AccountPks \cap DOMAIN accounts')
               => /\ accounts'[src].balance = accounts[src].balance - row.amount
                  /\ accounts'[src].frozen_balance
                       = accounts[src].frozen_balance - row.amount
                  /\ accounts'[src].available_balance
                       = accounts[src].available_balance]_vars

\* C23: no save that generated its reference fails with the unique
\* constraint error: every finished save of the two concurrent savers was
\* stored.
C23_NoDuplicateSurfaced ==
    \A p \in DOMAIN requests :
        requests[p].pc = "done" => requests[p].result # "IntegrityError"

\* saver p is inside the loop of generate_reference and a free suffix exists
InLoopWithFree(p) ==
    IF p \in DOMAIN requests
    THEN requests[p].pc = "generating" /\ GenerateReference(requests[p]) # {}
    ELSE FALSE

\* saver p has left the loop, or no suffix is free any more
LeftLoopOrNoneFree(p) ==
    IF p \in DOMAIN requests
    THEN requests[p].pc # "generating" \/ GenerateReference(requests[p]) = {}
    ELSE FALSE

AuthOps == {"authenticate", "get_user", "jwt_authenticate", "refresh_jwt_token"}

\* C25: a call on behalf of a user who is inactive or locked yields no user
\* and no token, and a call with good credentials on behalf of a user who is
\* active and not locked yields the user or a token.
C25_LockedGetsNothing ==
    outcome.op \in AuthOps =>
        /\ (outcome.known /\ (~outcome.active \/ outcome.locked))
              => outcome.result \notin {"user", "token"}
        /\ (outcome.known /\ outcome.active /\ ~outcome.locked
              /\ outcome.credentials)
              => outcome.result \in {"user", "token"}

\* C26: a stored transaction keeps its reference: a save of a row that is
\* already in the table, with other fields changed, leaves the reference
\* what it was after the first save.
C26_ReferenceKept ==
    [][\A pk \in Pks \cap DOMAIN transactions' :
          transactions'[pk].reference = transactions[pk].reference]_vars

\* C26 witness: a row whose reference save() generated was saved again with
\* another fee and status, and the save succeeded.
C26_Witness ==
    /\ outcome.op = "save" /\ ~outcome.adding /\ outcome.result = "saved"
    /\ outcome.pk \in Pks
    /\ transactions[outcome.pk].reference \in GeneratedForms
    /\ transactions[outcome.pk].fee # 0
    /\ transactions[outcome.pk].status # DefaultStatus

\* C30: for every stored transaction, whatever its status: can_be_cancelled
\* and can_be_reversed are never both true and are both false for FAILED,
\* CANCELLED and REVERSED; is_pending, is_completed and is_failed are
\* pairwise exclusive; exactly PENDING and PROCESSING are cancellable and
\* exactly COMPLETED is reversible.
C30_StatusPredicates ==
    \A pk \in Pks :
        LET row == transactions[pk]
        IN /\ ~(CanBeCancelled(row) /\ CanBeReversed(row))
           /\ row.status \in {"FAILED", "CANCELLED", "REVERSED"}
                => (~CanBeCancelled(row) /\ ~CanBeReversed(row))
           /\ ~(IsPending(row) /\ IsCompleted(row))
           /\ ~(IsPending(row) /\ IsFailed(row))
           /\ ~(IsCompleted(row) /\ IsFailed(row))
           /\ CanBeCancelled(row) <=> row.status \in {"PENDING", "PROCESSING"}
           /\ CanBeReversed(row) <=> row.status = "COMPLETED"

\* C30 witness: a reversible row is stored next to a row that is neither
\* cancellable nor reversible.
C30_Witness ==
    \E pk, other \in Pks :
        /\ CanBeReversed(transactions[pk])
        /\ transactions[other].status \in {"FAILED", "CANCELLED", "REVERSED"}

\* C27: every stored CryptoTransaction has total_value equal to amount times
\* price_per_unit, after every save.
C27_TotalValue ==
    \A pk \in CryptoPks :
        crypto_transactions[pk].total_value
          = crypto_transactions[pk].amount * crypto_transactions[pk].price_per_unit

UnlimitedTypes ==
    TRANSACTION_TYPE_CHOICES
      \ {"TRANSFER", "PAYMENT", "WITHDRAWAL", "CRYPTO_BUY", "CRYPTO_SELL"}

\* the rows of a user of the given types that are COMPLETED and of today
CompletedToday(user, types) ==
    {pk \in Pks :
        /\ transactions[pk].source_account \in DOMAIN accounts
        /\ accounts[transactions[pk].source_account].user = user
        /\ transactions[pk].status = "COMPLETED"
        /\ transactions[pk].created_at \div 86400 = now \div 86400
        /\ transactions[pk].transaction_type \in types}

\* C29: in every state, for every user and amount, check_daily_limit returns
\* true for each of DEPOSIT, AIRTIME, GIFTCARD_BUY, GIFTCARD_SELL, SCHOOL_FEE,
\* ELECTRIC_BILL, REFUND and CHARGE, and its answer for a limited type is
\* decided by the completed rows of that type's group alone, so that no
\* completed amount of the other types is counted.
C29_OtherTypesUnlimited ==
    \A user \in Users, amount \in AnyTypeAmounts :
        LET limit == TransactionLimitOf(user)
            answer(type) == CheckDailyLimit(limit, type, amount, DateOf(now))
            counted(types) == SumAmount(CompletedToday(user, types))
        IN /\ \A type \in UnlimitedTypes : answer(type) = TRUE
           /\ \A type \in {"TRANSFER", "PAYMENT"} :
                answer(type) = (counted({"TRANSFER", "PAYMENT"}) + amount
                                  <= DailyTransferLimit)
           /\ answer("WITHDRAWAL") = (counted({"WITHDRAWAL"}) + amount
                                        <= DailyWithdrawalLimit)
           /\ \A type \in {"CRYPTO_BUY", "CRYPTO_SELL"} :
                answer(type) = (counted({"CRYPTO_BUY", "CRYPTO_SELL"}) + amount
                                  <= DailyCryptoLimit)

\* C29 witness: the user has a COMPLETED deposit of today, and
\* check_daily_limit has just answered true for a DEPOSIT above every daily
\* ceiling.
C29_Witness ==
    /\ outcome.op = "check_daily_limit"
    /\ outcome.transaction_type = "DEPOSIT"
    /\ outcome.amount > DailyCryptoLimit
    /\ outcome.result = TRUE
    /\ \E pk \in Pks :
         /\ transactions[pk].transaction_type = "DEPOSIT"
         /\ transactions[pk].status = "COMPLETED"
         /\ transactions[pk].source_account \in DOMAIN accounts
         /\ accounts[transactions[pk].source_account].user = outcome.user
         /\ DateOf(transactions[pk].created_at) = outcome.today

====
